---- MODULE Spec2Model ----
(***************************************************************************)
(* RustyKaspaWallet (src/RustyKaspaWallet/src/lib.rs): a wallet session    *)
(* over two optional RPC transports (wRPC, gRPC) to one Kaspa node.        *)
(*                                                                         *)
(* The session is modelled as a state machine whose actions are the public *)
(* operations (connect, get_utxos, broadcast_transaction, drop); every RPC *)
(* call the code issues on a transport is appended to `log`.               *)
(* derive_private_key is checked under SpecDerive, which interleaves it    *)
(* with the RPC operations of a session.                                   *)
(* sign_transaction is a pure function of its arguments and the external   *)
(* signer's outcome; it is checked under SpecSign, whose initial states    *)
(* draw the arguments.                                                     *)
(***************************************************************************)
EXTENDS Integers, Sequences, FiniteSets, TLC

VARIABLES
    node,           \* environment: per endpoint, the connect step that fails (or "none")
    phase,          \* "unconnected" | "ready" | "failed" | "dropped"
    origin,         \* how the session value was built: "none" | "connect" | "literal"
    network_type,   \* RustyKaspaWallet.network_type
    wrpc_client,    \* RustyKaspaWallet.wrpc_client : Option
    grpc_client,    \* RustyKaspaWallet.grpc_client : Option
    log,            \* every call issued on a transport, in order
    ncalls,         \* number of public RPC operations invoked on the session
    op,             \* the last public operation invoked
    args,           \* its arguments
    result,         \* its result
    mark,           \* Len(log) when the last operation started
    signer,         \* outcome reported by the external signer in the last operation
    first_derived   \* history: the session's first derive_private_key (arguments, result,
                    \* ncalls at the time)

vars == <<node, phase, origin, network_type, wrpc_client, grpc_client,
          log, ncalls, op, args, result, mark, signer, first_derived>>

-----------------------------------------------------------------------------
(* Bounds *)

\* public RPC operations (get_utxos / broadcast_transaction) per session
MaxCalls == 2

\* inputs of a transaction handed to sign_transaction
MaxInputs == 2

\* fetched UTXOs handed to sign_transaction
MaxUtxos == 2

\* private-key strings handed to sign_transaction
MaxKeys == 2

SeqsUpTo(S, n) == UNION { [1..k -> S] : k \in 0..n }

-----------------------------------------------------------------------------
(* Rust Option / Result *)

None == <<>>

Some(x) == <<x>>

is_none(o) == o = None

is_some(o) == o # None

Ok(v) == [ok |-> TRUE, val |-> v]

Err(e) == [ok |-> FALSE, err |-> e]

\* a WalletError is a tuple whose head is the enum variant
Variant(r) == IF r.ok THEN "Ok" ELSE r.err[1]

NoResult == Err(<<"(none)">>)

-----------------------------------------------------------------------------
(* Configuration *)

NetworkTypes == {"Mainnet", "Testnet"}

\* URLs are token sequences so that the scheme prefix can be inspected
WrpcUrls == {<<"ws://", "node:17110">>}

GrpcUrls == {<<"grpc://", "node:16110">>, <<"node:16110">>}

WalletConfig(nt, w, g) ==
    [network_type |-> nt, wrpc_url |-> w, wrpc_encoding |-> "Borsh",
     wrpc_connect_timeout |-> Some(10), grpc_url |-> g]

Configs ==
    { WalletConfig(nt, w, g) :
        nt \in NetworkTypes,
        w \in {None} \cup {Some(u) : u \in WrpcUrls},
        g \in {None} \cup {Some(u) : u \in GrpcUrls} }

-----------------------------------------------------------------------------
(* Environment: the node behind each endpoint *)

Transports == {"wrpc", "grpc"}

\* the connect-time step at which the endpoint fails; "no_utxo_index" is a
\* successful get_server_info reply with has_utxo_index = false
WrpcFaults == {"none", "new", "connect", "start", "get_server_info", "no_utxo_index"}

GrpcFaults == {"none", "connect", "get_server_info", "no_utxo_index"}

Nodes == [wrpc : WrpcFaults, grpc : GrpcFaults]

\* one call issued on a transport: its method, its argument, whether it succeeded
Call(t, m, a, ok) == [transport |-> t, method |-> m, arg |-> a, ok |-> ok]

-----------------------------------------------------------------------------
(* NodeCapabilityGate *)

\* mutant: the has_utxo_index flag is not inspected
enforce_utxo_index_unchecked(info) == Ok(<<>>)

enforce_utxo_index(info) ==
    IF ~info.has_utxo_index THEN Err(<<"MissingUtxoIndex">>) ELSE Ok(<<>>)

\* get_server_info on transport t against an endpoint with fault f, then the gate
ServerInfoGate(t, f) ==
    IF f = "get_server_info"
    THEN [calls |-> <<Call(t, "get_server_info", <<>>, FALSE)>>, res |-> Err(<<"Rpc">>)]
    ELSE [calls |-> <<Call(t, "get_server_info", <<>>, TRUE)>>,
          res |-> enforce_utxo_index([has_utxo_index |-> f # "no_utxo_index"])]

ensure_utxo_index(f) == ServerInfoGate("wrpc", f)

ensure_utxo_index_grpc(f) == ServerInfoGate("grpc", f)

-----------------------------------------------------------------------------
(* RustyKaspaWallet::connect *)

ConnectOptions(cfg) ==
    [block_async_connect |-> TRUE, connect_timeout |-> cfg.wrpc_connect_timeout,
     strategy |-> "Fallback"]

\* mutant: the result of start is discarded, as it is for gRPC
ConnectWrpc_start_unchecked(cfg, nd) ==
    IF is_none(cfg.wrpc_url)
    THEN [calls |-> <<>>, err |-> None, client |-> None]
    ELSE
      LET url == cfg.wrpc_url[1]
          c1  == <<Call("wrpc", "new", url, nd.wrpc # "new")>>
          c2  == Append(c1, Call("wrpc", "connect", ConnectOptions(cfg), nd.wrpc # "connect"))
          c3  == Append(c2, Call("wrpc", "start", <<>>, nd.wrpc # "start"))
          g   == ensure_utxo_index(nd.wrpc)
      IN  IF nd.wrpc = "new"
          THEN [calls |-> c1, err |-> Some(<<"Wrpc">>), client |-> None]
          ELSE IF nd.wrpc = "connect"
          THEN [calls |-> c2, err |-> Some(<<"Wrpc">>), client |-> None]
          ELSE IF ~g.res.ok
          THEN [calls |-> c3 \o g.calls, err |-> Some(g.res.err), client |-> None]
          ELSE [calls |-> c3 \o g.calls, err |-> None, client |-> Some("wrpc")]

\* the `if let Some(url) = &config.wrpc_url` block
ConnectWrpc(cfg, nd) ==
    IF is_none(cfg.wrpc_url)
    THEN [calls |-> <<>>, err |-> None, client |-> None]
    ELSE
      LET url == cfg.wrpc_url[1]
          c1  == <<Call("wrpc", "new", url, nd.wrpc # "new")>>
          c2  == Append(c1, Call("wrpc", "connect", ConnectOptions(cfg), nd.wrpc # "connect"))
          c3  == Append(c2, Call("wrpc", "start", <<>>, nd.wrpc # "start"))
          g   == ensure_utxo_index(nd.wrpc)
      IN  IF nd.wrpc = "new"
          THEN [calls |-> c1, err |-> Some(<<"Wrpc">>), client |-> None]
          ELSE IF nd.wrpc = "connect"
          THEN [calls |-> c2, err |-> Some(<<"Wrpc">>), client |-> None]
          ELSE IF nd.wrpc = "start"
          THEN [calls |-> c3, err |-> Some(<<"Wrpc">>), client |-> None]
          ELSE IF ~g.res.ok
          THEN [calls |-> c3 \o g.calls, err |-> Some(g.res.err), client |-> None]
          ELSE [calls |-> c3 \o g.calls, err |-> None, client |-> Some("wrpc")]

\* `if url.starts_with("grpc://") { url.clone() } else { format!("grpc://{url}") }`
GrpcUrl(url) ==
    IF Len(url) > 0 /\ Head(url) = "grpc://" THEN url ELSE <<"grpc://">> \o url

\* mutant: a failed gRPC connect is reported as a plain RPC error
ConnectGrpc_untagged(cfg, nd) ==
    IF is_none(cfg.grpc_url)
    THEN [calls |-> <<>>, err |-> None, client |-> None]
    ELSE
      LET grpc_url == GrpcUrl(cfg.grpc_url[1])
          c1 == <<Call("grpc", "connect", grpc_url, nd.grpc # "connect")>>
          c2 == Append(c1, Call("grpc", "start", None, TRUE))
          g  == ensure_utxo_index_grpc(nd.grpc)
      IN  IF nd.grpc = "connect"
          THEN [calls |-> c1, err |-> Some(<<"Rpc">>), client |-> None]
          ELSE IF ~g.res.ok
          THEN [calls |-> c2 \o g.calls, err |-> Some(g.res.err), client |-> None]
          ELSE [calls |-> c2 \o g.calls, err |-> None, client |-> Some("grpc")]

\* the `if let Some(url) = &config.grpc_url` block
ConnectGrpc(cfg, nd) ==
    IF is_none(cfg.grpc_url)
    THEN [calls |-> <<>>, err |-> None, client |-> None]
    ELSE
      LET grpc_url == GrpcUrl(cfg.grpc_url[1])
          c1 == <<Call("grpc", "connect", grpc_url, nd.grpc # "connect")>>
          c2 == Append(c1, Call("grpc", "start", None, TRUE))
          g  == ensure_utxo_index_grpc(nd.grpc)
      IN  IF nd.grpc = "connect"
          THEN [calls |-> c1, err |-> Some(<<"Grpc">>), client |-> None]
          ELSE IF ~g.res.ok
          THEN [calls |-> c2 \o g.calls, err |-> Some(g.res.err), client |-> None]
          ELSE [calls |-> c2 \o g.calls, err |-> None, client |-> Some("grpc")]

\* mutant: a failed transport is skipped and the other one still connects
connect_per_transport(cfg, nd) ==
    LET w == ConnectWrpc(cfg, nd)
        g == ConnectGrpc(cfg, nd)
    IN  IF is_none(w.client) /\ is_none(g.client)
        THEN [calls |-> w.calls \o g.calls, result |-> Err(<<"NoEndpoints">>),
              wrpc_client |-> None, grpc_client |-> None]
        ELSE [calls |-> w.calls \o g.calls, result |-> Ok("session"),
              wrpc_client |-> w.client, grpc_client |-> g.client]

\* mutant: the final check for a present handle is missing
connect_unchecked(cfg, nd) ==
    LET w == ConnectWrpc(cfg, nd)
        g == ConnectGrpc(cfg, nd)
    IN  IF is_some(w.err)
        THEN [calls |-> w.calls, result |-> Err(w.err[1]),
              wrpc_client |-> None, grpc_client |-> None]
        ELSE IF is_some(g.err)
        THEN [calls |-> w.calls \o g.calls, result |-> Err(g.err[1]),
              wrpc_client |-> None, grpc_client |-> None]
        ELSE [calls |-> w.calls \o g.calls, result |-> Ok("session"),
              wrpc_client |-> w.client, grpc_client |-> g.client]

\* connect(config): the calls it issues, its result, and the handles of the
\* returned session (None, None when no session is returned)
connect(cfg, nd) ==
    LET w == ConnectWrpc(cfg, nd)
        g == ConnectGrpc(cfg, nd)
    IN  IF is_some(w.err)
        THEN [calls |-> w.calls, result |-> Err(w.err[1]),
              wrpc_client |-> None, grpc_client |-> None]
        ELSE IF is_some(g.err)
        THEN [calls |-> w.calls \o g.calls, result |-> Err(g.err[1]),
              wrpc_client |-> None, grpc_client |-> None]
        ELSE IF is_none(w.client) /\ is_none(g.client)
        THEN [calls |-> w.calls \o g.calls, result |-> Err(<<"NoEndpoints">>),
              wrpc_client |-> None, grpc_client |-> None]
        ELSE [calls |-> w.calls \o g.calls, result |-> Ok("session"),
              wrpc_client |-> w.client, grpc_client |-> g.client]

-----------------------------------------------------------------------------
(* Addresses and transactions *)

Prefixes == {"kaspa", "kaspatest", "kaspasim", "kaspadev"}

\* address strings as token sequences: prefix, separator, payload
AddressStrings ==
    { <<"kaspa", ":", "payload">>, <<"kaspatest", ":", "payload">>,
      <<"kaspa", ":", "corrupt">>, <<"btc", ":", "payload">>, <<"payload">> }

\* `address.try_into()`: Address::try_from(&str)
AddressTryFrom(a) ==
    IF Len(a) # 3 \/ a[2] # ":"
    THEN Err(<<"Address", "MissingPrefix">>)
    ELSE IF a[1] \notin Prefixes
    THEN Err(<<"Address", "InvalidPrefix">>)
    ELSE IF a[3] # "payload"
    THEN Err(<<"Address", "BadChecksum">>)
    ELSE Ok([prefix |-> a[1], version |-> "PubKey", payload |-> a[3]])

Outpoint(t, i) == [transaction_id |-> t, index |-> i]

\* two outpoints of one transaction and one of another
Outpoints == {Outpoint("t1", 0), Outpoint("t1", 1), Outpoint("t2", 0)}

\* TransactionOutpoint -> RpcTransactionOutpoint (`.into()`): field by field
RpcOutpointFrom(o) == [transaction_id |-> o.transaction_id, index |-> o.index]

TransactionInput(o) == [previous_outpoint |-> o, signature_script |-> <<>>]

Transaction(ins) == [inputs |-> ins, finalized |-> FALSE]

\* RpcTransaction::from(&Transaction)
RpcTransactionFrom(tx) ==
    [inputs |-> [i \in 1..Len(tx.inputs) |->
                    [previous_outpoint |-> RpcOutpointFrom(tx.inputs[i].previous_outpoint),
                     signature_script |-> tx.inputs[i].signature_script]],
     verbose_data |-> None]

\* transactions handed to broadcast_transaction
BroadcastTxs ==
    { Transaction(<<TransactionInput(Outpoint("t1", 0))>>),
      Transaction(<<TransactionInput(Outpoint("t1", 1)), TransactionInput(Outpoint("t2", 0))>>) }

-----------------------------------------------------------------------------
(* Public RPC operations.  `reply` is the transport's answer to the one     *)
(* request: Ok(value) or Err(RpcError).                                     *)

RpcReplies(v) == {Ok(v), Err(<<"Rpc">>)}

\* a request on transport t answered by `reply`: the call and the mapped result
Request(t, m, a, reply) ==
    [calls |-> <<Call(t, m, a, reply.ok)>>, result |-> reply]

\* mutant: a request that failed on wRPC is tried again on gRPC
get_utxos_with_fallback(wc, gc, address, reply) ==
    LET rpc_address == AddressTryFrom(address)
        first == Request("wrpc", "get_utxos_by_addresses", <<rpc_address.val>>, reply)
        second == Request("grpc", "get_utxos_by_addresses", <<rpc_address.val>>, reply)
    IN  IF ~rpc_address.ok
        THEN [calls |-> <<>>, result |-> rpc_address]
        ELSE IF is_some(wc)
        THEN IF ~reply.ok /\ is_some(gc)
             THEN [calls |-> first.calls \o second.calls, result |-> second.result]
             ELSE first
        ELSE IF is_some(gc)
        THEN second
        ELSE [calls |-> <<>>, result |-> Err(<<"NoEndpoints">>)]

\* mutant: the gRPC handle is preferred
get_utxos_grpc_first(wc, gc, address, reply) ==
    LET rpc_address == AddressTryFrom(address)
    IN  IF ~rpc_address.ok
        THEN [calls |-> <<>>, result |-> rpc_address]
        ELSE IF is_some(gc)
        THEN Request("grpc", "get_utxos_by_addresses", <<rpc_address.val>>, reply)
        ELSE IF is_some(wc)
        THEN Request("wrpc", "get_utxos_by_addresses", <<rpc_address.val>>, reply)
        ELSE [calls |-> <<>>, result |-> Err(<<"NoEndpoints">>)]

\* mutant: the transport is chosen first and the address parsed afterwards
get_utxos_parse_late(wc, gc, address, reply) ==
    LET rpc_address == AddressTryFrom(address)
    IN  IF is_none(wc) /\ is_none(gc)
        THEN [calls |-> <<>>, result |-> Err(<<"NoEndpoints">>)]
        ELSE IF ~rpc_address.ok
        THEN [calls |-> <<>>, result |-> rpc_address]
        ELSE IF is_some(wc)
        THEN Request("wrpc", "get_utxos_by_addresses", <<rpc_address.val>>, reply)
        ELSE Request("grpc", "get_utxos_by_addresses", <<rpc_address.val>>, reply)

get_utxos(wc, gc, address, reply) ==
    LET rpc_address == AddressTryFrom(address)
    IN  IF ~rpc_address.ok
        THEN [calls |-> <<>>, result |-> rpc_address]
        ELSE IF is_some(wc)
        THEN Request("wrpc", "get_utxos_by_addresses", <<rpc_address.val>>, reply)
        ELSE IF is_some(gc)
        THEN Request("grpc", "get_utxos_by_addresses", <<rpc_address.val>>, reply)
        ELSE [calls |-> <<>>, result |-> Err(<<"NoEndpoints">>)]

broadcast_transaction(wc, gc, transaction, allow_orphans, reply) ==
    LET rpc_tx == RpcTransactionFrom(transaction)
    IN  IF is_some(wc)
        THEN Request("wrpc", "submit_transaction", <<rpc_tx, allow_orphans>>, reply)
        ELSE IF is_some(gc)
        THEN Request("grpc", "submit_transaction", <<rpc_tx, allow_orphans>>, reply)
        ELSE [calls |-> <<>>, result |-> Err(<<"NoEndpoints">>)]

-----------------------------------------------------------------------------
(* sign_transaction: UTXO resolution *)

RpcUtxoEntry(a) == [amount |-> a, script_public_key |-> "spk", is_coinbase |-> FALSE]

\* RpcUtxoEntry -> UtxoEntry (`.into()`): field by field
UtxoEntryFrom(e) ==
    [amount |-> e.amount, script_public_key |-> e.script_public_key,
     is_coinbase |-> e.is_coinbase]

RpcUtxosByAddressesEntry(o, a) == [outpoint |-> RpcOutpointFrom(o), utxo_entry |-> RpcUtxoEntry(a)]

\* fetched UTXOs: two of them carry the same outpoint with different entries;
\* the outpoint of t2 is never among them
FetchedUtxos ==
    { RpcUtxosByAddressesEntry(Outpoint("t1", 0), 10),
      RpcUtxosByAddressesEntry(Outpoint("t1", 0), 20),
      RpcUtxosByAddressesEntry(Outpoint("t1", 1), 10) }

\* mutant: an existing value is kept (entry().or_insert)
MapInsert_keep_first(m, k, v) ==
    [x \in (DOMAIN m) \cup {k} |-> IF x \in DOMAIN m THEN m[x] ELSE v]

\* HashMap::insert: the new value replaces an existing one under the same key
MapInsert(m, k, v) == [x \in (DOMAIN m) \cup {k} |-> IF x = k THEN v ELSE m[x]]

\* `for entry in utxos.iter() { utxo_map.insert(entry.outpoint, entry.utxo_entry.into()) }`
RECURSIVE BuildUtxoMap(_, _)
BuildUtxoMap(utxo_map, utxos) ==
    IF utxos = <<>>
    THEN utxo_map
    ELSE BuildUtxoMap(MapInsert(utxo_map, Head(utxos).outpoint,
                                UtxoEntryFrom(Head(utxos).utxo_entry)),
                      Tail(utxos))

\* mutant: an unmatched input is given a zero-value entry
ResolveInputs_substituting(inputs, utxo_map, entries) ==
    Ok(entries \o
       [i \in 1..Len(inputs) |->
           LET rpc_outpoint == RpcOutpointFrom(inputs[i].previous_outpoint)
           IN  IF rpc_outpoint \in DOMAIN utxo_map
               THEN utxo_map[rpc_outpoint]
               ELSE [amount |-> 0, script_public_key |-> "", is_coinbase |-> FALSE]])

\* `for input in &transaction.inputs { entries.push(utxo_map.get(..).ok_or_else(MissingUtxo)?) }`
RECURSIVE ResolveInputs(_, _, _)
ResolveInputs(inputs, utxo_map, entries) ==
    IF inputs = <<>>
    THEN Ok(entries)
    ELSE LET input == Head(inputs)
             rpc_outpoint == RpcOutpointFrom(input.previous_outpoint)
         IN  IF rpc_outpoint \notin DOMAIN utxo_map
             THEN Err(<<"MissingUtxo", input.previous_outpoint>>)
             ELSE ResolveInputs(Tail(inputs), utxo_map,
                                Append(entries, utxo_map[rpc_outpoint]))

\* the map of the fetched UTXOs, then the entries aligned with the inputs
ResolveUtxos(transaction, utxos) ==
    ResolveInputs(transaction.inputs, BuildUtxoMap(<<>>, utxos), <<>>)

-----------------------------------------------------------------------------
(* sign_transaction: private keys *)

\* length of a private key in bytes: `[u8; 32]`
KeyBytes == 32

LowerHex == <<"0","1","2","3","4","5","6","7","8","9","a","b","c","d","e","f">>

UpperHex == <<"0","1","2","3","4","5","6","7","8","9","A","B","C","D","E","F">>

IsHexDigit(c) == \E v \in 1..16 : LowerHex[v] = c \/ UpperHex[v] = c

HexVal(c) == (CHOOSE v \in 1..16 : LowerHex[v] = c \/ UpperHex[v] = c) - 1

\* hex::decode: odd length first, then the first invalid character, else the bytes
HexDecode(s) ==
    IF Len(s) % 2 # 0
    THEN Err(<<"Hex", "OddLength">>)
    ELSE IF \E i \in 1..Len(s) : ~IsHexDigit(s[i])
    THEN LET i == CHOOSE j \in 1..Len(s) :
                     /\ ~IsHexDigit(s[j])
                     /\ \A k \in 1..(j - 1) : IsHexDigit(s[k])
         IN  Err(<<"Hex", "InvalidHexCharacter", s[i], i - 1>>)
    ELSE Ok([i \in 1..(Len(s) \div 2) |-> 16 * HexVal(s[2 * i - 1]) + HexVal(s[2 * i])])

\* mutant: the decoded length is not checked
KeyArray_unchecked(data) == Ok(data)

\* `data.as_slice().try_into()` to [u8; 32], mapped to Hex(InvalidStringLength)
KeyArray(data) ==
    IF Len(data) # KeyBytes THEN Err(<<"Hex", "InvalidStringLength">>) ELSE Ok(data)

\* `for key in private_keys { key_bytes.push(decode(key)?.try_into()?) }`
RECURSIVE DecodeKeys(_, _)
DecodeKeys(private_keys, key_bytes) ==
    IF private_keys = <<>>
    THEN Ok(key_bytes)
    ELSE LET data == HexDecode(Head(private_keys))
         IN  IF ~data.ok
             THEN data
             ELSE LET array == KeyArray(data.val)
                  IN  IF ~array.ok
                      THEN array
                      ELSE DecodeKeys(Tail(private_keys), Append(key_bytes, array.val))

Rep(c, n) == [i \in 1..n |-> c]

\* key strings, one per decoding outcome: a valid key (digits of both cases),
\* an odd-length string, a non-hex character, 31 bytes
KeyStrings ==
    { Rep("1", 2 * KeyBytes - 2) \o <<"a", "F">>,
      Rep("1", 2 * KeyBytes - 1),
      Rep("1", 2 * KeyBytes - 1) \o <<"g">>,
      Rep("1", 2 * KeyBytes - 2) }

-----------------------------------------------------------------------------
(* sign_transaction: signing *)

SignerOutcomes == {"Fully", "Partially"}

\* SignableTransaction::with_entries
SignableTransaction(transaction, entries) == [tx |-> transaction, entries |-> entries]

\* sign_with_multiple_v2 (external): `outcome` is what it reports; a fully signed
\* transaction carries a signature script on every input
sign_with_multiple_v2(signable, key_bytes, outcome) ==
    IF outcome = "Fully"
    THEN [signed |-> "Fully",
          tx |-> [signable.tx EXCEPT !.inputs =
                     [i \in 1..Len(signable.tx.inputs) |->
                         [signable.tx.inputs[i] EXCEPT !.signature_script = <<"sig">>]]]]
    ELSE [signed |-> "Partially", tx |-> signable.tx]

\* Transaction::finalize
Finalize(tx) == [tx EXCEPT !.finalized = TRUE]

\* mutant: a partially signed transaction is finalized and returned too
CompleteSigning_lenient(signed) == Ok(Finalize(signed.tx))

\* the match on the signer's outcome, then `tx.finalize(); Ok(tx)`
CompleteSigning(signed) ==
    IF signed.signed = "Fully"
    THEN Ok(Finalize(signed.tx))
    ELSE Err(<<"PartialSignature">>)

\* mutant: the keys are decoded before the inputs are resolved
sign_transaction_keys_first(transaction, utxos, private_keys, outcome) ==
    LET key_bytes == DecodeKeys(private_keys, <<>>)
    IN  IF ~key_bytes.ok
        THEN [result |-> key_bytes, signer |-> "not_invoked"]
        ELSE LET entries == ResolveUtxos(transaction, utxos)
             IN  IF ~entries.ok
                 THEN [result |-> entries, signer |-> "not_invoked"]
                 ELSE LET signable == SignableTransaction(transaction, entries.val)
                          signed == sign_with_multiple_v2(signable, key_bytes.val, outcome)
                      IN  [result |-> CompleteSigning(signed), signer |-> signed.signed]

\* sign_transaction: its result and what the signer reported ("not_invoked"
\* when the function returned before calling it)
sign_transaction(transaction, utxos, private_keys, outcome) ==
    LET entries == ResolveUtxos(transaction, utxos)
    IN  IF ~entries.ok
        THEN [result |-> entries, signer |-> "not_invoked"]
        ELSE LET signable == SignableTransaction(transaction, entries.val)
                 key_bytes == DecodeKeys(private_keys, <<>>)
             IN  IF ~key_bytes.ok
                 THEN [result |-> key_bytes, signer |-> "not_invoked"]
                 ELSE LET signed == sign_with_multiple_v2(signable, key_bytes.val, outcome)
                      IN  [result |-> CompleteSigning(signed), signer |-> signed.signed]

SignTransactions ==
    { Transaction(ins) :
        ins \in SeqsUpTo({TransactionInput(o) : o \in Outpoints}, MaxInputs) }

\* the arguments of one sign_transaction call
SignArgs ==
    [transaction : SignTransactions,
     utxos : SeqsUpTo(FetchedUtxos, MaxUtxos),
     private_keys : SeqsUpTo(KeyStrings, MaxKeys)]

-----------------------------------------------------------------------------
(* derive_private_key.  The BIP-39, BIP-32, secp256k1 and address functions *)
(* it calls are functions of their arguments; their values are kept as      *)
(* terms.  Every failure surfaces through `?` as WalletError::Bip32; the    *)
(* kaspa_bip32::Error value it wraps is not modelled.                       *)

\* two valid English BIP-39 sentences, as word sequences
KnownPhrase == Rep("abandon", 11) \o <<"about">>

LegalPhrase ==
    <<"legal", "winner", "thank", "year", "wave", "sausage",
      "worth", "useful", "legal", "winner", "thank", "yellow">>

ValidPhrases == {KnownPhrase, LegalPhrase}

\* the valid sentences and one whose checksum word is wrong
Phrases == ValidPhrases \cup {Rep("abandon", 12)}

\* Mnemonic::new(mnemonic, Language::English)
MnemonicNew(phrase) ==
    IF phrase \in ValidPhrases
    THEN Ok([phrase |-> phrase, language |-> "English"])
    ELSE Err(<<"Bip32">>)

\* Mnemonic::to_seed(passphrase)
ToSeed(mnemonic, passphrase) == <<"seed", mnemonic.phrase, passphrase>>

\* ExtendedPrivateKey::<SecretKey>::new(seed): to_seed always yields 64 bytes
ExtendedPrivateKeyNew(seed) == Ok(<<"xprv", seed, <<>>>>)

\* the child-number segments a path may hold
ChildNumbers == {"44'", "972", "0'", "0", "1"}

\* derivation paths as segment sequences: the path of tests::derive_known_key,
\* its sibling, and one with a segment that is no child number
Paths ==
    { <<"m", "44'", "972", "0'", "0", "0">>,
      <<"m", "44'", "972", "0'", "0", "1">>,
      <<"m", "44'", "x">> }

\* DerivationPath::from_str(path)
DerivationPathFromStr(path) ==
    IF Len(path) = 0 \/ Head(path) # "m"
    THEN Err(<<"Bip32">>)
    ELSE IF \E i \in 2..Len(path) : path[i] \notin ChildNumbers
    THEN Err(<<"Bip32">>)
    ELSE Ok(Tail(path))

\* stand-in for the (master key, path) pairs on which a BIP-32 step fails:
\* whether a tweak is out of range is a function of the key and the path
FailingDerivations ==
    { <<ExtendedPrivateKeyNew(ToSeed(MnemonicNew(LegalPhrase).val, "")).val,
        <<"44'", "972", "0'", "0", "1">>>> }

\* ExtendedPrivateKey::derive_path(&path)
DerivePath(master, derivation_path) ==
    IF <<master, derivation_path>> \in FailingDerivations
    THEN Err(<<"Bip32">>)
    ELSE Ok(<<"xprv", master[2], derivation_path>>)

\* Prefix::from(network_type)
PrefixFrom(nt) == IF nt = "Mainnet" THEN "kaspa" ELSE "kaspatest"

\* Address::new(prefix, Version::PubKey, payload).to_string()
AddressString(prefix, payload) == <<prefix, ":", <<"PubKey", payload>>>>

\* the body of derive_private_key, for a given seed passphrase
DeriveWithPassphrase(nt, mnemonic_str, path, passphrase) ==
    LET mnemonic == MnemonicNew(mnemonic_str)
    IN  IF ~mnemonic.ok THEN mnemonic
        ELSE
        LET seed == ToSeed(mnemonic.val, passphrase)
            master == ExtendedPrivateKeyNew(seed)
        IN  IF ~master.ok THEN master
        ELSE
        LET derivation_path == DerivationPathFromStr(path)
        IN  IF ~derivation_path.ok THEN derivation_path
        ELSE
        LET child == DerivePath(master.val, derivation_path.val)
        IN  IF ~child.ok THEN child
        ELSE
        LET secret_key == <<"secret", child.val>>
            public_key == <<"public", secret_key>>
            x_only == <<"x_only", public_key>>
            address == AddressString(PrefixFrom(nt), x_only)
        IN  Ok([extended_private_key |-> <<"kprv", child.val>>,
                private_key_hex |-> <<"hex", secret_key>>,
                public_key_hex |-> <<"hex", public_key>>,
                x_only_public_key_hex |-> <<"hex", x_only>>,
                address |-> address])

\* mutant: the seed passphrase is taken from the session's use so far
derive_private_key_stateful(nt, mnemonic_str, path) ==
    DeriveWithPassphrase(nt, mnemonic_str, path, IF ncalls = 0 THEN "" ELSE "used")

\* derive_private_key(&self, mnemonic, path): `mnemonic.to_seed("")`
derive_private_key(nt, mnemonic_str, path) ==
    DeriveWithPassphrase(nt, mnemonic_str, path, "")

-----------------------------------------------------------------------------
(* impl Drop for RustyKaspaWallet.  s1, d1 (s2, d2) are the outcomes of the   *)
(* first step and of disconnect on wRPC (gRPC); both are discarded (.ok()).  *)

\* mutant: a failed stop ends the block before disconnect
DropWrpc_stop_propagated(wc, s1, d1) ==
    IF is_some(wc)
    THEN IF s1
         THEN <<Call("wrpc", "stop", <<>>, s1), Call("wrpc", "disconnect", <<>>, d1)>>
         ELSE <<Call("wrpc", "stop", <<>>, s1)>>
    ELSE <<>>

DropWrpc(wc, s1, d1) ==
    IF is_some(wc)
    THEN <<Call("wrpc", "stop", <<>>, s1), Call("wrpc", "disconnect", <<>>, d1)>>
    ELSE <<>>

DropGrpc(gc, s2, d2) ==
    IF is_some(gc)
    THEN <<Call("grpc", "join", <<>>, s2), Call("grpc", "disconnect", <<>>, d2)>>
    ELSE <<>>

\* mutant: the gRPC handle is torn down first
drop_grpc_first(wc, gc, s1, d1, s2, d2) == DropGrpc(gc, s2, d2) \o DropWrpc(wc, s1, d1)

drop(wc, gc, s1, d1, s2, d2) == DropWrpc(wc, s1, d1) \o DropGrpc(gc, s2, d2)

-----------------------------------------------------------------------------
(* Initial state and the connect action *)

Init ==
    /\ node \in Nodes
    /\ phase = "unconnected"
    /\ origin = "none"
    /\ network_type = "Mainnet"
    /\ wrpc_client = None
    /\ grpc_client = None
    /\ log = <<>>
    /\ ncalls = 0
    /\ op = "none"
    /\ args = <<>>
    /\ result = NoResult
    /\ mark = 0
    /\ signer = "not_invoked"
    /\ first_derived = None

Connect(cfg) ==
    /\ phase = "unconnected"
    /\ LET c == connect(cfg, node)
       IN  /\ log' = log \o c.calls
           /\ result' = c.result
           /\ wrpc_client' = c.wrpc_client
           /\ grpc_client' = c.grpc_client
           /\ phase' = IF c.result.ok THEN "ready" ELSE "failed"
           /\ origin' = IF c.result.ok THEN "connect" ELSE "none"
    /\ network_type' = cfg.network_type
    /\ op' = "connect"
    /\ args' = cfg
    /\ mark' = Len(log)
    /\ UNCHANGED <<node, ncalls, signer, first_derived>>

\* the struct literal of tests::derive_known_key: a session with no handle
ConstructLiteral ==
    /\ phase = "unconnected"
    /\ phase' = "ready"
    /\ origin' = "literal"
    /\ network_type' = "Mainnet"
    /\ wrpc_client' = None
    /\ grpc_client' = None
    /\ op' = "literal"
    /\ args' = <<>>
    /\ result' = Ok("session")
    /\ mark' = Len(log)
    /\ UNCHANGED <<node, log, ncalls, signer, first_derived>>

GetUtxos(address, reply) ==
    /\ phase = "ready"
    /\ ncalls < MaxCalls
    /\ LET r == get_utxos(wrpc_client, grpc_client, address, reply)
       IN  /\ log' = log \o r.calls
           /\ result' = r.result
    /\ ncalls' = ncalls + 1
    /\ op' = "get_utxos"
    /\ args' = <<address>>
    /\ mark' = Len(log)
    /\ UNCHANGED <<node, phase, origin, network_type, wrpc_client, grpc_client, signer,
                   first_derived>>

BroadcastTransaction(transaction, allow_orphans, reply) ==
    /\ phase = "ready"
    /\ ncalls < MaxCalls
    /\ LET r == broadcast_transaction(wrpc_client, grpc_client, transaction,
                                      allow_orphans, reply)
       IN  /\ log' = log \o r.calls
           /\ result' = r.result
    /\ ncalls' = ncalls + 1
    /\ op' = "broadcast_transaction"
    /\ args' = <<transaction, allow_orphans>>
    /\ mark' = Len(log)
    /\ UNCHANGED <<node, phase, origin, network_type, wrpc_client, grpc_client, signer,
                   first_derived>>

Drop(s1, d1, s2, d2) ==
    /\ phase = "ready"
    /\ log' = log \o drop(wrpc_client, grpc_client, s1, d1, s2, d2)
    /\ wrpc_client' = None
    /\ grpc_client' = None
    /\ phase' = "dropped"
    /\ op' = "drop"
    /\ args' = [wrpc_client |-> wrpc_client, grpc_client |-> grpc_client]
    /\ result' = Ok(<<>>)
    /\ mark' = Len(log)
    /\ UNCHANGED <<node, origin, network_type, ncalls, signer, first_derived>>

Next ==
    \/ \E cfg \in Configs : Connect(cfg)
    \/ ConstructLiteral
    \/ \E a \in AddressStrings, reply \in RpcReplies("utxos") : GetUtxos(a, reply)
    \/ \E tx \in BroadcastTxs, ao \in BOOLEAN, reply \in RpcReplies("txid") :
          BroadcastTransaction(tx, ao, reply)
    \/ \E s1, d1, s2, d2 \in BOOLEAN : Drop(s1, d1, s2, d2)

Spec == Init /\ [][Next]_vars

-----------------------------------------------------------------------------
(* sign_transaction as a function of its arguments: a call on a session    *)
(* (sign_transaction reads no field of it) whose arguments are drawn from   *)
(* SignArgs and which has not returned yet.                                 *)

InitSign ==
    /\ node = [wrpc |-> "none", grpc |-> "none"]
    /\ phase = "ready"
    /\ origin = "literal"
    /\ network_type = "Mainnet"
    /\ wrpc_client = None
    /\ grpc_client = None
    /\ log = <<>>
    /\ ncalls = 0
    /\ op = "sign_transaction"
    /\ args \in SignArgs
    /\ result = NoResult
    /\ mark = 0
    /\ signer = "not_invoked"
    /\ first_derived = None

SignTransaction(outcome) ==
    /\ op = "sign_transaction"
    /\ result = NoResult
    /\ LET r == sign_transaction(args.transaction, args.utxos, args.private_keys, outcome)
       IN  /\ result' = r.result
           /\ signer' = r.signer
    /\ UNCHANGED <<node, phase, origin, network_type, wrpc_client, grpc_client,
                   log, ncalls, op, args, mark, first_derived>>

NextSign == \E outcome \in SignerOutcomes : SignTransaction(outcome)

SpecSign == InitSign /\ [][NextSign]_vars

-----------------------------------------------------------------------------
(* derive_private_key on a session, interleaved with its RPC operations *)

DerivePrivateKey(mnemonic_str, path) ==
    /\ phase = "ready"
    /\ LET r == derive_private_key(network_type, mnemonic_str, path)
       IN  /\ result' = r
           /\ first_derived' =
                 IF is_none(first_derived)
                 THEN Some([mnemonic |-> mnemonic_str, path |-> path, result |-> r,
                            ncalls |-> ncalls])
                 ELSE first_derived
    /\ op' = "derive_private_key"
    /\ args' = <<mnemonic_str, path>>
    /\ mark' = Len(log)
    /\ UNCHANGED <<node, phase, origin, network_type, wrpc_client, grpc_client,
                   log, ncalls, signer>>

\* the endpoints are healthy: every configured transport connects
InitDerive == Init /\ node = [wrpc |-> "none", grpc |-> "none"]

\* the RPC operations run between derivations: one address, one transaction
NextDerive ==
    \/ \E cfg \in Configs : Connect(cfg)
    \/ ConstructLiteral
    \/ \E reply \in RpcReplies("utxos") : GetUtxos(<<"kaspa", ":", "payload">>, reply)
    \/ \E reply \in RpcReplies("txid") :
          BroadcastTransaction(Transaction(<<TransactionInput(Outpoint("t1", 0))>>),
                               TRUE, reply)
    \/ \E m \in Phrases, p \in Paths : DerivePrivateKey(m, p)

SpecDerive == InitDerive /\ [][NextDerive]_vars

-----------------------------------------------------------------------------
(* Vocabulary of the properties *)

\* the calls issued by the last operation
OpCalls == SubSeq(log, mark + 1, Len(log))

Handle(t) == IF t = "wrpc" THEN wrpc_client ELSE grpc_client

Other(t) == IF t = "wrpc" THEN "grpc" ELSE "wrpc"

\* position of the first call of method m on transport t with outcome ok, or 0
CallAt(t, m, ok) ==
    IF \E i \in DOMAIN log :
          log[i].transport = t /\ log[i].method = m /\ log[i].ok = ok
    THEN CHOOSE i \in DOMAIN log :
          /\ log[i].transport = t /\ log[i].method = m /\ log[i].ok = ok
          /\ \A j \in 1..(i - 1) :
                ~(log[j].transport = t /\ log[j].method = m /\ log[j].ok = ok)
    ELSE 0

\* connect() established a connection on t
Connected(t) == CallAt(t, "connect", TRUE) > 0

\* t answered get_server_info with has_utxo_index = true / false
ReportedIndex(t) == CallAt(t, "get_server_info", TRUE) > 0 /\ node[t] # "no_utxo_index"

ReportedNoIndex(t) == CallAt(t, "get_server_info", TRUE) > 0 /\ node[t] = "no_utxo_index"

\* the first teardown step of a transport
FirstStep(t) == IF t = "wrpc" THEN "stop" ELSE "join"

\* the teardown pair was issued on t after its connection was established
TornDown(t) ==
    \E i, j \in DOMAIN log :
        /\ CallAt(t, "connect", TRUE) < i /\ i < j
        /\ log[i].transport = t /\ log[i].method = FirstStep(t)
        /\ log[j].transport = t /\ log[j].method = "disconnect"

\* a step of t failed while connect() ran (the last operation is connect)
StepFailed(t) ==
    \/ \E i \in DOMAIN log : log[i].transport = t /\ ~log[i].ok
    \/ ReportedNoIndex(t)

-----------------------------------------------------------------------------
(* C1 *)

\* C1 (as claimed): once the session's life is over -- connect() returned an
\* error, or the session was dropped -- every transport on which connect()
\* established a connection has been issued its teardown pair.
C1_TeardownOnEveryExit ==
    phase \in {"failed", "dropped"} =>
        \A t \in Transports : Connected(t) => TornDown(t)

-----------------------------------------------------------------------------
(* C2 *)

\* C2 (as claimed): with both URLs configured, when a step of one transport
\* fails while the other transport connected and passed its gate, connect()
\* succeeds, holding None for the failed transport and a handle for the other.
C2_FailureFatalToTransportOnly ==
    \A t \in Transports :
        ( /\ op = "connect"
          /\ is_some(args.wrpc_url) /\ is_some(args.grpc_url)
          /\ node[t] # "none"
          /\ ReportedIndex(Other(t)) )
        => ( /\ result.ok
             /\ is_none(Handle(t))
             /\ is_some(Handle(Other(t))) )

\* C2 (amended): a failed step of either transport is fatal to the whole
\* connect(): it returns a transport or gate error (never NoEndpoints) and no
\* session, so no handle is held, also when the other transport connected and
\* passed its gate.
C2_FailureFatalToConnect ==
    ( op = "connect" /\ \E t \in Transports : StepFailed(t) )
    => ( /\ ~result.ok
         /\ Variant(result) \in {"Wrpc", "Grpc", "Rpc", "MissingUtxoIndex"}
         /\ phase = "failed"
         /\ is_none(wrpc_client) /\ is_none(grpc_client) )

\* wRPC connected and passed its gate, the gRPC connect failed, connect() failed
C2_Witness ==
    /\ op = "connect"
    /\ is_some(args.wrpc_url) /\ is_some(args.grpc_url)
    /\ ReportedIndex("wrpc")
    /\ CallAt("grpc", "connect", FALSE) > 0
    /\ Variant(result) = "Grpc"
    /\ phase = "failed"

-----------------------------------------------------------------------------
(* C3 *)

\* C3: a transport whose get_server_info reply reported has_utxo_index = false
\* makes connect() fail with MissingUtxoIndex, and every handle a session
\* holds, from the state in which connect() returns it, is to a transport
\* that has answered get_server_info with has_utxo_index = true.
C3_CapabilityGate ==
    /\ op = "connect" =>
          \A t \in Transports :
              ReportedNoIndex(t) =>
                  /\ result = Err(<<"MissingUtxoIndex">>)
                  /\ phase = "failed"
    /\ \A t \in Transports :
          is_some(Handle(t)) => ReportedIndex(t)

\* wRPC passed its gate, gRPC reported no UTXO index: MissingUtxoIndex
C3_Witness ==
    /\ op = "connect"
    /\ ReportedIndex("wrpc")
    /\ ReportedNoIndex("grpc")
    /\ result = Err(<<"MissingUtxoIndex">>)

-----------------------------------------------------------------------------
(* C4 *)

\* C4: a session returned by connect() holds at least one transport handle
\* in every state up to its teardown.
C4_AtLeastOneHandle ==
    (origin = "connect" /\ phase = "ready") =>
        (is_some(wrpc_client) \/ is_some(grpc_client))

\* a gRPC-only session on which an operation has already run
C4_Witness ==
    /\ origin = "connect" /\ phase = "ready"
    /\ ncalls > 0
    /\ is_none(wrpc_client) /\ is_some(grpc_client)

-----------------------------------------------------------------------------
(* C5 *)

\* C5: connect() with neither URL configured fails with NoEndpoints, issues
\* no call on any transport and returns no session.
C5_NoUrlsNoEndpoints ==
    (op = "connect" /\ is_none(args.wrpc_url) /\ is_none(args.grpc_url))
    => ( /\ result = Err(<<"NoEndpoints">>)
         /\ log = <<>>
         /\ phase = "failed" /\ origin = "none"
         /\ is_none(wrpc_client) /\ is_none(grpc_client) )

C5_Witness ==
    /\ op = "connect" /\ is_none(args.wrpc_url) /\ is_none(args.grpc_url)
    /\ result = Err(<<"NoEndpoints">>)

-----------------------------------------------------------------------------
(* C6 *)

\* the RPC method behind a public operation
RpcMethod(o) ==
    IF o = "get_utxos" THEN "get_utxos_by_addresses" ELSE "submit_transaction"

\* the last operation is a get_utxos with a well-formed address or a broadcast
SelectingOp ==
    \/ op = "get_utxos" /\ AddressTryFrom(args[1]).ok
    \/ op = "broadcast_transaction"

\* C6: such an operation issues exactly one request, on wRPC if that handle
\* is present, otherwise on gRPC if that handle is present; with no handle it
\* issues none and fails with NoEndpoints.
C6_TransportSelection ==
    SelectingOp =>
        /\ Len(OpCalls) <= 1
        /\ is_some(wrpc_client) =>
              /\ Len(OpCalls) = 1
              /\ OpCalls[1].transport = "wrpc" /\ OpCalls[1].method = RpcMethod(op)
        /\ (is_none(wrpc_client) /\ is_some(grpc_client)) =>
              /\ Len(OpCalls) = 1
              /\ OpCalls[1].transport = "grpc" /\ OpCalls[1].method = RpcMethod(op)
        /\ (is_none(wrpc_client) /\ is_none(grpc_client)) =>
              /\ OpCalls = <<>>
              /\ result = Err(<<"NoEndpoints">>)

\* both handles present: get_utxos went to wRPC alone
C6_Witness ==
    /\ op = "get_utxos" /\ AddressTryFrom(args[1]).ok
    /\ is_some(wrpc_client) /\ is_some(grpc_client)
    /\ Len(OpCalls) = 1 /\ OpCalls[1].transport = "wrpc"

-----------------------------------------------------------------------------
(* Vocabulary of the sign_transaction properties (SpecSign) *)

\* the sign_transaction call has returned
SignReturned == op = "sign_transaction" /\ result # NoResult

SignInputs == args.transaction.inputs

\* the outpoints of the fetched UTXOs
FetchedOutpoints == { args.utxos[j].outpoint : j \in DOMAIN args.utxos }

\* positions of the inputs whose previous outpoint is not among them
Unmatched ==
    { i \in DOMAIN SignInputs :
        RpcOutpointFrom(SignInputs[i].previous_outpoint) \notin FetchedOutpoints }

FirstUnmatched == CHOOSE i \in Unmatched : \A k \in Unmatched : i <= k

\* not valid hexadecimal, or not 32 bytes once decoded
InvalidKey(k) ==
    \/ \E i \in DOMAIN k : ~IsHexDigit(k[i])
    \/ Len(k) # 2 * KeyBytes

SomeKeyInvalid == \E i \in DOMAIN args.private_keys : InvalidKey(args.private_keys[i])

-----------------------------------------------------------------------------
(* C7 *)

\* C7: when every input's previous outpoint is among the fetched outpoints,
\* resolution succeeds with one entry per input, entry i being the entry of a
\* fetched UTXO with input i's outpoint, and the call does not fail with
\* MissingUtxo; otherwise the call fails with MissingUtxo carrying the first
\* unmatched outpoint in input order, and the signer is not invoked.
C7_UtxoResolution ==
    SignReturned =>
        LET r == ResolveUtxos(args.transaction, args.utxos)
        IN  /\ Unmatched = {} =>
                  /\ r.ok
                  /\ Len(r.val) = Len(SignInputs)
                  /\ \A i \in DOMAIN SignInputs :
                        \E j \in DOMAIN args.utxos :
                            /\ args.utxos[j].outpoint
                                  = RpcOutpointFrom(SignInputs[i].previous_outpoint)
                            /\ r.val[i] = UtxoEntryFrom(args.utxos[j].utxo_entry)
                  /\ Variant(result) # "MissingUtxo"
            /\ Unmatched # {} =>
                  /\ r = result
                  /\ result = Err(<<"MissingUtxo",
                                    SignInputs[FirstUnmatched].previous_outpoint>>)
                  /\ signer = "not_invoked"

\* two inputs, the first matched and the second not: MissingUtxo names the second
C7_Witness ==
    /\ SignReturned
    /\ Len(SignInputs) = 2
    /\ Unmatched = {2}
    /\ result = Err(<<"MissingUtxo", SignInputs[2].previous_outpoint>>)

-----------------------------------------------------------------------------
(* C8 *)

\* C8: a transaction is returned only when the signer reported Fully, and it
\* is finalized; when the signer reported Partially the call fails with
\* PartialSignature.
C8_FullySignedOrError ==
    SignReturned =>
        /\ result.ok => (signer = "Fully" /\ result.val.finalized)
        /\ signer = "Partially" => result = Err(<<"PartialSignature">>)

\* the signer reported Partially on a transaction with inputs
C8_Witness ==
    /\ SignReturned
    /\ Len(SignInputs) > 0
    /\ signer = "Partially"
    /\ result = Err(<<"PartialSignature">>)

-----------------------------------------------------------------------------
(* C9 *)

\* C9 (as claimed): whenever some key string is invalid the call fails with
\* Hex, for every transaction and every fetched UTXO sequence.
C9_InvalidKeyAlwaysHex ==
    (SignReturned /\ SomeKeyInvalid) => Variant(result) = "Hex"

\* C9 (amended): whenever some key string is invalid and every input of the
\* transaction is matched by a fetched UTXO, the call fails with Hex and the
\* signer is not invoked (with an unmatched input it fails with MissingUtxo
\* before any key is decoded).
C9_InvalidKeyHexAfterResolution ==
    (SignReturned /\ SomeKeyInvalid) =>
        /\ Unmatched = {} => (Variant(result) = "Hex" /\ signer = "not_invoked")
        /\ Unmatched # {} => Variant(result) = "MissingUtxo"

\* a valid key followed by an invalid one, all inputs matched: Hex
C9_Witness ==
    /\ SignReturned
    /\ Len(SignInputs) > 0 /\ Unmatched = {}
    /\ Len(args.private_keys) = 2
    /\ ~InvalidKey(args.private_keys[1]) /\ InvalidKey(args.private_keys[2])
    /\ Variant(result) = "Hex"

-----------------------------------------------------------------------------
(* C10 *)

\* C10: get_utxos with a malformed address fails with the invalid-address
\* error and issues no request, whatever handles the session holds.
C10_ParseBeforeTransport ==
    (op = "get_utxos" /\ ~AddressTryFrom(args[1]).ok)
    => ( /\ Variant(result) = "Address"
         /\ OpCalls = <<>> )

\* a malformed address on a session holding both handles
C10_Witness ==
    /\ op = "get_utxos" /\ ~AddressTryFrom(args[1]).ok
    /\ is_some(wrpc_client) /\ is_some(grpc_client)
    /\ Variant(result) = "Address"
    /\ OpCalls = <<>>

-----------------------------------------------------------------------------
(* C11 *)

\* the handle of t the session owned when it was dropped (the last operation is drop)
Owned(t) == IF t = "wrpc" THEN args.wrpc_client ELSE args.grpc_client

\* the calls the last operation issued on transport t
OpCallsOn(t) == SelectSeq(OpCalls, LAMBDA c : c.transport = t)

\* C11: drop completes without error for every combination of step failures,
\* and on each owned transport it issues the first step (stop / join) and then
\* disconnect, whether or not the first step succeeded; nothing else is issued.
C11_TeardownNeverFails ==
    op = "drop" =>
        /\ result = Ok(<<>>)
        /\ phase = "dropped"
        /\ \A t \in Transports :
              /\ is_some(Owned(t)) =>
                    /\ Len(OpCallsOn(t)) = 2
                    /\ OpCallsOn(t)[1].method = FirstStep(t)
                    /\ OpCallsOn(t)[2].method = "disconnect"
              /\ is_none(Owned(t)) => OpCallsOn(t) = <<>>

\* stop failed on wRPC and join failed on gRPC; both disconnects were still issued
C11_Witness ==
    /\ op = "drop"
    /\ is_some(Owned("wrpc")) /\ is_some(Owned("grpc"))
    /\ Len(OpCalls) = 4
    /\ ~OpCalls[1].ok /\ OpCalls[2].method = "disconnect" /\ ~OpCalls[2].ok
    /\ ~OpCalls[3].ok /\ OpCalls[4].method = "disconnect"
    /\ result = Ok(<<>>)

-----------------------------------------------------------------------------
(* C12 *)

\* the WalletError variant named after a transport
Tag(t) == IF t = "wrpc" THEN "Wrpc" ELSE "Grpc"

\* the last operation is one that returns transport errors to the caller
ReturnsErrors == op \in {"connect", "get_utxos", "broadcast_transaction"}

\* C12 (as claimed): whenever a call of the operation failed on a transport,
\* the variant of the returned error is the one named after that transport.
C12_ErrorsTaggedByTransport ==
    ReturnsErrors =>
        \A i \in DOMAIN OpCalls :
            ~OpCalls[i].ok => Variant(result) = Tag(OpCalls[i].transport)

\* C12 (amended): a failed new, connect or start is returned under the variant
\* named after its transport; a failed get_server_info,
\* get_utxos_by_addresses or submit_transaction is returned as Rpc on either
\* transport.
C12_TaggedOnlyAtConnectSteps ==
    ReturnsErrors =>
        \A i \in DOMAIN OpCalls :
            ~OpCalls[i].ok =>
                /\ OpCalls[i].method \in {"new", "connect", "start"}
                      => Variant(result) = Tag(OpCalls[i].transport)
                /\ OpCalls[i].method \in {"get_server_info", "get_utxos_by_addresses",
                                          "submit_transaction"}
                      => result = Err(<<"Rpc">>)

\* a request that failed on gRPC came back as Rpc
C12_Witness ==
    /\ op = "get_utxos"
    /\ Len(OpCalls) = 1
    /\ OpCalls[1].transport = "grpc" /\ ~OpCalls[1].ok
    /\ result = Err(<<"Rpc">>)

-----------------------------------------------------------------------------
(* C15 *)

ConnectMethods == {"new", "connect", "start", "get_server_info"}

\* positions of the calls of method m on transport t
Positions(t, m) == { i \in DOMAIN log : log[i].transport = t /\ log[i].method = m }

\* C15: every connect-time method is issued at most once per transport over
\* the session's life; a get_utxos or broadcast_transaction issues nothing
\* but its own request, at most once, and returns that request's outcome: a
\* failed request comes back as the error, with no second attempt.
C15_NoReconnectNoRetry ==
    /\ \A t \in Transports, m \in ConnectMethods : Cardinality(Positions(t, m)) <= 1
    /\ op \in {"get_utxos", "broadcast_transaction"} =>
          /\ Len(OpCalls) <= 1
          /\ \A i \in DOMAIN OpCalls : OpCalls[i].method = RpcMethod(op)
          /\ Len(OpCalls) = 1 =>
                /\ result.ok = OpCalls[1].ok
                /\ ~OpCalls[1].ok => result = Err(<<"Rpc">>)

\* the request failed on wRPC while a gRPC handle was present: one call, the error
C15_Witness ==
    /\ op = "get_utxos"
    /\ is_some(wrpc_client) /\ is_some(grpc_client)
    /\ Len(OpCalls) = 1
    /\ OpCalls[1].transport = "wrpc" /\ ~OpCalls[1].ok
    /\ result = Err(<<"Rpc">>)

-----------------------------------------------------------------------------
(* C16 *)

RequestMethods == {"get_utxos_by_addresses", "submit_transaction"}

\* the call just before position i is a successful m on the same transport
PrecededBy(i, m) ==
    /\ i > 1
    /\ log[i - 1].transport = log[i].transport
    /\ log[i - 1].method = m
    /\ log[i - 1].ok

\* C16: on each transport, connect (blocking, for wRPC) is followed by start
\* and start by get_server_info, each issued right after the previous one
\* succeeded; a request is issued on a transport only after that transport's
\* get_server_info succeeded and reported the UTXO index.
C16_ConnectOrdering ==
    \A i \in DOMAIN log :
        /\ (log[i].transport = "wrpc" /\ log[i].method = "connect") =>
              /\ PrecededBy(i, "new")
              /\ log[i].arg.block_async_connect
        /\ log[i].method = "start" => PrecededBy(i, "connect")
        /\ log[i].method = "get_server_info" => PrecededBy(i, "start")
        /\ log[i].method \in RequestMethods =>
              \E j \in 1..(i - 1) :
                  /\ log[j].transport = log[i].transport
                  /\ log[j].method = "get_server_info" /\ log[j].ok
                  /\ node[log[i].transport] # "no_utxo_index"

\* a request issued on gRPC, after its connect, start and gate
C16_Witness ==
    \E i \in DOMAIN log :
        /\ log[i].transport = "grpc" /\ log[i].method \in RequestMethods
        /\ i = 4
        /\ log[1].method = "connect" /\ log[2].method = "start"
        /\ log[3].method = "get_server_info"

-----------------------------------------------------------------------------
(* C17 *)

TeardownMethods == {"stop", "join", "disconnect"}

\* C17: no teardown call is issued before the session is dropped; once it is
\* dropped, each owned transport has been issued its first step and its
\* disconnect exactly once, a transport that was not owned none, the wRPC
\* pair precedes the gRPC pair, and the session holds no handle.
C17_TornDownExactlyOnce ==
    /\ phase # "dropped" =>
          \A i \in DOMAIN log : log[i].method \notin TeardownMethods
    /\ phase = "dropped" =>
          /\ is_none(wrpc_client) /\ is_none(grpc_client)
          /\ \A t \in Transports :
                /\ Cardinality(Positions(t, FirstStep(t)))
                      = (IF is_some(Owned(t)) THEN 1 ELSE 0)
                /\ Cardinality(Positions(t, "disconnect"))
                      = (IF is_some(Owned(t)) THEN 1 ELSE 0)
          /\ \A i \in Positions("wrpc", "disconnect"), j \in Positions("grpc", "join") :
                i < j

\* a session owning both handles was dropped
C17_Witness ==
    /\ phase = "dropped"
    /\ is_some(Owned("wrpc")) /\ is_some(Owned("grpc"))
    /\ Cardinality(Positions("wrpc", "stop")) = 1
    /\ Cardinality(Positions("grpc", "join")) = 1

-----------------------------------------------------------------------------
(* C18 *)

CallsOn(t) == { i \in DOMAIN log : log[i].transport = t }

\* C18: in connect(), every wRPC call precedes every gRPC call; with a wRPC
\* URL configured, gRPC is contacted only after wRPC passed its gate; when a
\* wRPC step fails, gRPC is not contacted and connect() returns that step's
\* error; a returned session holds a handle for exactly the configured URLs.
C18_SequentialWrpcFirst ==
    op = "connect" =>
        /\ \A i \in CallsOn("wrpc"), j \in CallsOn("grpc") : i < j
        /\ (is_some(args.wrpc_url) /\ CallsOn("grpc") # {}) => ReportedIndex("wrpc")
        /\ StepFailed("wrpc") =>
              /\ CallsOn("grpc") = {}
              /\ Variant(result) \in {"Wrpc", "Rpc", "MissingUtxoIndex"}
        /\ result.ok =>
              /\ is_some(wrpc_client) <=> is_some(args.wrpc_url)
              /\ is_some(grpc_client) <=> is_some(args.grpc_url)

\* both URLs configured, wRPC start failed, the gRPC endpoint was healthy and
\* was never contacted
C18_Witness ==
    /\ op = "connect"
    /\ is_some(args.wrpc_url) /\ is_some(args.grpc_url)
    /\ CallAt("wrpc", "start", FALSE) > 0
    /\ node.grpc = "none"
    /\ CallsOn("grpc") = {}
    /\ Variant(result) = "Wrpc"

-----------------------------------------------------------------------------
(* C19 *)

\* C19: the signer is invoked exactly when every input is matched and every
\* key is valid; a call with both an unmatched input and an invalid key fails
\* with MissingUtxo, and one with only an invalid key with Hex.
C19_ValidationBeforeSigning ==
    SignReturned =>
        /\ signer # "not_invoked" <=> (Unmatched = {} /\ ~SomeKeyInvalid)
        /\ (Unmatched # {} /\ SomeKeyInvalid) => Variant(result) = "MissingUtxo"
        /\ signer = "not_invoked" => Variant(result) \in {"MissingUtxo", "Hex"}

\* an unmatched input together with an invalid key: MissingUtxo, signer not invoked
C19_Witness ==
    /\ SignReturned
    /\ Unmatched # {} /\ SomeKeyInvalid
    /\ Variant(result) = "MissingUtxo"
    /\ signer = "not_invoked"

-----------------------------------------------------------------------------
(* C20 *)

\* position of the last fetched UTXO carrying rpc outpoint o
LastFetched(o) ==
    CHOOSE j \in DOMAIN args.utxos :
        /\ args.utxos[j].outpoint = o
        /\ \A k \in DOMAIN args.utxos : args.utxos[k].outpoint = o => k <= j

\* some outpoint is carried by two fetched UTXOs with different entries
DuplicateFetched ==
    \E j, k \in DOMAIN args.utxos :
        /\ j < k
        /\ args.utxos[j].outpoint = args.utxos[k].outpoint
        /\ args.utxos[j].utxo_entry # args.utxos[k].utxo_entry

\* C20: when every input is matched, duplicates among the fetched outpoints
\* or not, resolution succeeds with one entry per input, and entry i is the
\* entry of the last fetched UTXO carrying input i's outpoint.
C20_LastDuplicateWins ==
    (SignReturned /\ Unmatched = {}) =>
        LET r == ResolveUtxos(args.transaction, args.utxos)
        IN  /\ r.ok
            /\ Variant(result) # "MissingUtxo"
            /\ Len(r.val) = Len(SignInputs)
            /\ \A i \in DOMAIN SignInputs :
                  r.val[i] = UtxoEntryFrom(
                      args.utxos[LastFetched(
                          RpcOutpointFrom(SignInputs[i].previous_outpoint))].utxo_entry)

\* two inputs referencing an outpoint fetched twice with different entries;
\* the call went past resolution
C20_Witness ==
    /\ SignReturned
    /\ DuplicateFetched
    /\ Len(SignInputs) = 2
    /\ SignInputs[1].previous_outpoint = SignInputs[2].previous_outpoint
    /\ Unmatched = {}
    /\ Variant(result) # "MissingUtxo"

-----------------------------------------------------------------------------
(* derive_private_key *)

DeriveReturned == op = "derive_private_key"

\* the last derivation was given the arguments of the session's first one
SameAsFirstDerived ==
    /\ is_some(first_derived)
    /\ first_derived[1].mnemonic = args[1]
    /\ first_derived[1].path = args[2]

\* the session state a derivation could touch
SessionState ==
    <<node, phase, origin, network_type, wrpc_client, grpc_client, log, ncalls>>

====
